---- MODULE Spec2Model ----
(***************************************************************************)
(* Model of qwiller/intelligent_qa_assistant: the fixed-size chunker and   *)
(* its TextStructurizer wrapper, the TextCleaner, the DocumentLoader and   *)
(* the LLMIntegrator.  Strings are sequences of one-character strings.     *)
(***************************************************************************)
EXTENDS Integers, Sequences, FiniteSets, TLC

\* ------------------------------------------------------------------ bounds
MaxLen == 4
MaxSize == 3
MaxCfg == 2
MaxCleanLen == 4

\* ------------------------------------------------------- Python values
Alphabet == {"a", "."}

StrsUpTo(S, n) == UNION {[1..k -> S] : k \in 0..n}

PyStr(cs) == [type |-> "str", chars |-> cs, n |-> 0]
PyNone == [type |-> "NoneType", chars |-> <<>>, n |-> 0]
PyInt(i) == [type |-> "int", chars |-> <<>>, n |-> i]

\* Python truth value of an argument: "", None and 0 are falsy.
Truthy(v) ==
    IF v.type = "str" THEN Len(v.chars) > 0
    ELSE IF v.type = "int" THEN v.n # 0
    ELSE FALSE

IsStr(v) == v.type = "str"

Min(a, b) == IF a <= b THEN a ELSE b

\* text[i:j] with 0 <= i, Python slice semantics (0-based, j exclusive, clamped).
Slice(cs, i, j) == SubSeq(cs, i + 1, Min(j, Len(cs)))

\* Arguments the environment passes as text / chunk_size / chunk_overlap.
TextArgs == {PyStr(cs) : cs \in StrsUpTo(Alphabet, MaxLen)} \cup {PyNone, PyInt(0), PyInt(5)}
SizeArgs == (0 - 1)..MaxSize
CfgArgs == (0 - 1)..MaxCfg

\* --------------------------------------------------------------- state
VARIABLES
    frame,           \* activation of split_text_by_fixed_size / the splitter
    self,            \* the TextStructurizer object
    ctor,            \* the arguments its constructor was given
    caller,          \* "none", "direct" or "structure_text"
    splitter_calls   \* calls of self.splitter_fn made by the current structure_text

VARIABLES
    cleaner,         \* the TextCleaner object
    clean            \* activation of TextCleaner.clean_text

VARIABLES
    PYMUPDF_AVAILABLE,  \* whether `import fitz` succeeded when loader.py was imported
    load                \* activation of DocumentLoader.load_document

VARIABLES
    llm,             \* the LLMIntegrator object, if its constructor built one
    gen              \* activation of LLMIntegrator.generate_answer

chunkVars == <<frame, self, ctor, caller, splitter_calls>>
cleanVars == <<cleaner, clean>>
loadVars == <<PYMUPDF_AVAILABLE, load>>
llmVars == <<llm, gen>>
vars == <<chunkVars, cleanVars, loadVars, llmVars>>

\* What the operations of each component leave alone.
notChunk == <<cleanVars, loadVars, llmVars>>
notClean == <<chunkVars, loadVars, llmVars>>
notLoad == <<chunkVars, cleanVars, llmVars>>
notLLM == <<chunkVars, cleanVars, loadVars>>

\* text, chunk_size, chunk_overlap are the parameters, chunks and start_index
\* the locals; iters counts the loop iterations run, pc is "idle", "loop" or
\* "done", outcome is "return" or the exception raised, result the value returned.
IdleFrame ==
    [fn |-> "none", text |-> PyNone, chunk_size |-> 0, chunk_overlap |-> 0, chunks |-> <<>>,
     start_index |-> 0, iters |-> 0, pc |-> "idle", outcome |-> "none", result |-> <<>>]

\* ------------------------------------------------ split_text_by_fixed_size
Returned(f, r) == [f EXCEPT !.pc = "done", !.outcome = "return", !.result = r]
Raised(f, e) == [f EXCEPT !.pc = "done", !.outcome = e]

\* The activation record of a call fn(t, cs, co) at its entry.
Activation(fn, t, cs, co) ==
    [IdleFrame EXCEPT !.fn = fn, !.text = t, !.chunk_size = cs, !.chunk_overlap = co]

\* Enter without the isinstance test of line 18: len() of a non-string raises.
Enter_NoTypeCheck(t, cs, co) ==
    LET f == Activation("split_text_by_fixed_size", t, cs, co)
    IN  IF ~Truthy(t) THEN Returned(f, <<>>)
        ELSE IF cs <= 0 THEN Raised(f, "ValueError")
        ELSE IF co < 0 THEN Raised(f, "ValueError")
        ELSE IF co >= cs THEN Raised(f, "ValueError")
        ELSE IF ~IsStr(t) THEN Raised(f, "TypeError")
        ELSE [f EXCEPT !.pc = "loop", !.chunks = <<>>, !.start_index = 0]

\* Enter without the test of lines 24-25: an overlap equal to the chunk size
\* (or larger) gets into the loop.
Enter_NoOverlapCheck(t, cs, co) ==
    LET f == Activation("split_text_by_fixed_size", t, cs, co)
    IN  IF ~IsStr(t) \/ ~Truthy(t) THEN Returned(f, <<>>)
        ELSE IF cs <= 0 THEN Raised(f, "ValueError")
        ELSE IF co < 0 THEN Raised(f, "ValueError")
        ELSE [f EXCEPT !.pc = "loop", !.chunks = <<>>, !.start_index = 0]

\* Lines 18-29: the guards and the initialisation of the locals.
Enter(t, cs, co) ==
    LET f == Activation("split_text_by_fixed_size", t, cs, co)
    IN  IF ~IsStr(t) \/ ~Truthy(t) THEN Returned(f, <<>>)
        ELSE IF cs <= 0 THEN Raised(f, "ValueError")
        ELSE IF co < 0 THEN Raised(f, "ValueError")
        ELSE IF co >= cs THEN Raised(f, "ValueError")
        ELSE [f EXCEPT !.pc = "loop", !.chunks = <<>>, !.start_index = 0]

\* Iter advancing by chunk_size: the overlap is forgotten.
Iter_StrideIgnoresOverlap(f) ==
    LET text_len == Len(f.text.chars)
    IN  IF f.start_index < text_len
        THEN LET end_index == Min(f.start_index + f.chunk_size, text_len)
                 chunks == Append(f.chunks, Slice(f.text.chars, f.start_index, end_index))
             IN  IF end_index = text_len
                 THEN Returned([f EXCEPT !.chunks = chunks, !.iters = @ + 1], chunks)
                 ELSE [f EXCEPT !.chunks = chunks, !.iters = @ + 1,
                                !.start_index = @ + f.chunk_size]
        ELSE Returned(f, f.chunks)

\* Iter advancing by one character too many.
Iter_StrideOffByOne(f) ==
    LET text_len == Len(f.text.chars)
    IN  IF f.start_index < text_len
        THEN LET end_index == Min(f.start_index + f.chunk_size, text_len)
                 chunks == Append(f.chunks, Slice(f.text.chars, f.start_index, end_index))
             IN  IF end_index = text_len
                 THEN Returned([f EXCEPT !.chunks = chunks, !.iters = @ + 1], chunks)
                 ELSE [f EXCEPT !.chunks = chunks, !.iters = @ + 1,
                                !.start_index = @ + (f.chunk_size - f.chunk_overlap) + 1]
        ELSE Returned(f, f.chunks)

\* Iter without the break of lines 37-38 (the loop of the comment at lines
\* 48-49): it goes on until the while test fails.
Iter_NoBreak(f) ==
    LET text_len == Len(f.text.chars)
    IN  IF f.start_index < text_len
        THEN LET end_index == Min(f.start_index + f.chunk_size, text_len)
                 chunks == Append(f.chunks, Slice(f.text.chars, f.start_index, end_index))
             IN  [f EXCEPT !.chunks = chunks, !.iters = @ + 1,
                           !.start_index = @ + (f.chunk_size - f.chunk_overlap)]
        ELSE Returned(f, f.chunks)

\* Lines 31-45 and 54: one evaluation of the while test and, when it holds,
\* one iteration of the body; leaving the loop returns chunks.
Iter(f) ==
    LET text_len == Len(f.text.chars)
    IN  IF f.start_index < text_len
        THEN LET end_index == Min(f.start_index + f.chunk_size, text_len)
                 chunks == Append(f.chunks, Slice(f.text.chars, f.start_index, end_index))
             IN  IF end_index = text_len
                 THEN Returned([f EXCEPT !.chunks = chunks, !.iters = @ + 1], chunks)
                 ELSE [f EXCEPT !.chunks = chunks, !.iters = @ + 1,
                                !.start_index = @ + (f.chunk_size - f.chunk_overlap)]
        ELSE Returned(f, f.chunks)

\* The whole function: the frame at its return or raise.
RECURSIVE Run(_)
Run(f) == IF f.pc = "done" THEN f ELSE Run(Iter(f))

split_text_by_fixed_size(t, cs, co) == Run(Enter(t, cs, co))

\* ------------------------------------------------------- TextStructurizer
DefaultChunkSize == 1000
DefaultChunkOverlap == 200

\* Index of the first sep in cs at or after position i (1-based), 0 if none.
RECURSIVE Find(_, _, _)
Find(cs, sep, i) ==
    IF i > Len(cs) THEN 0 ELSE IF cs[i] = sep THEN i ELSE Find(cs, sep, i + 1)

\* str.split(sep): the pieces between the occurrences of sep, empty ones kept.
RECURSIVE StrSplit(_, _)
StrSplit(cs, sep) ==
    LET i == Find(cs, sep, 1)
    IN  IF i = 0 THEN <<cs>>
        ELSE <<SubSeq(cs, 1, i - 1)>> \o StrSplit(SubSeq(cs, i + 1, Len(cs)), sep)

IsSpace(c) == c \in {" ", "\t", "\n", "\r"}

\* str.strip(): leading and trailing whitespace removed.
RECURSIVE Strip(_)
Strip(cs) ==
    IF cs = <<>> THEN cs
    ELSE IF IsSpace(cs[1]) THEN Strip(Tail(cs))
    ELSE IF IsSpace(cs[Len(cs)]) THEN Strip(SubSeq(cs, 1, Len(cs) - 1))
    ELSE cs

RECURSIVE StripNonEmpty(_)
StripNonEmpty(ps) ==
    IF ps = <<>> THEN <<>>
    ELSE (IF Strip(Head(ps)) # <<>> THEN <<Strip(Head(ps))>> ELSE <<>>)
         \o StripNonEmpty(Tail(ps))

\* Lines 135-140: the example custom splitter; it ignores both integers.
sentence_splitter(t, cs, co) ==
    LET f == Activation("sentence_splitter", t, cs, co)
    IN  IF ~IsStr(t) THEN Raised(f, "AttributeError")
        ELSE Returned(f, StripNonEmpty(StrSplit(t.chars, ".")))

\* Lines 72-74: the object __init__ builds; fn = "None" is the default argument.
Construct(cs, co, fn) ==
    [chunk_size |-> cs, chunk_overlap |-> co,
     splitter_fn |-> IF fn # "None" THEN fn ELSE "split_text_by_fixed_size"]

\* Entering self.splitter_fn(text, chunk_size, chunk_overlap).
CallSplitter(fn, t, cs, co) ==
    IF fn = "split_text_by_fixed_size" THEN Enter(t, cs, co)
    ELSE sentence_splitter(t, cs, co)

CtorArgs ==
    {[chunk_size |-> cs, chunk_overlap |-> co, splitter_fn |-> fn] :
        cs \in CfgArgs, co \in CfgArgs, fn \in {"None", "sentence_splitter"}}
    \cup {[chunk_size |-> DefaultChunkSize, chunk_overlap |-> DefaultChunkOverlap,
           splitter_fn |-> "None"]}

CleanIdle == [pc |-> "idle", text |-> <<>>, result |-> <<>>]

\* What the file system and the PDF library answer during one load_document:
\* whether the path exists, whether open()/read() succeeds, whether
\* fitz.open()/get_text() succeeds, and the text the file holds.
NoEnv == [exists |-> FALSE, read_ok |-> FALSE, pdf_ok |-> FALSE, content |-> <<>>]

NoValue == [type |-> "none", tag |-> "none", chars |-> <<>>]

LoadIdle ==
    [pc |-> "idle", path |-> <<>>, env |-> NoEnv, outcome |-> "none",
     result |-> NoValue, opened |-> 0]

\* No LLMIntegrator: none was constructed, or the constructor raised.
NoLLM ==
    [built |-> FALSE, api_base_url |-> PyNone, api_key |-> PyNone,
     Authorization |-> PyNone]

\* A JSON value as far as generate_answer looks at it.
JAbsent == [t |-> "absent", chars |-> <<>>]
JNull == [t |-> "null", chars |-> <<>>]
JNum == [t |-> "num", chars |-> <<>>]
JStr(cs) == [t |-> "str", chars |-> cs]

\* An HTTP exchange: how the transport ends, the status, and the body.
NoBody ==
    [json |-> FALSE, root |-> "null", choices |-> "absent", first |-> "null",
     message |-> "absent", content |-> JAbsent, text |-> JAbsent]

NoHttp == [transport |-> "ok", status |-> 200, json_error |-> "ValueError", body |-> NoBody]

NoRequest == [url |-> <<>>, Authorization |-> PyNone]

GenIdle ==
    [pc |-> "idle", http |-> NoHttp, outcome |-> "none", result |-> NoValue,
     posts |-> 0, request |-> NoRequest]

\* A TextStructurizer built from any of the constructor arguments, no call
\* running; the other objects as their constructors' defaults build them.
InitChunk ==
    /\ frame = IdleFrame
    /\ ctor \in CtorArgs
    /\ self = Construct(ctor.chunk_size, ctor.chunk_overlap, ctor.splitter_fn)
    /\ caller = "none"
    /\ splitter_calls = 0
    /\ cleaner = [remove_special_chars |-> TRUE]
    /\ clean = CleanIdle
    /\ PYMUPDF_AVAILABLE = TRUE
    /\ load = LoadIdle
    /\ llm = NoLLM
    /\ gen = GenIdle

\* A direct call of the module-level function.
SplitCall(t, cs, co) ==
    /\ frame.pc = "idle"
    /\ frame' = Enter(t, cs, co)
    /\ caller' = "direct"
    /\ splitter_calls' = 0
    /\ UNCHANGED <<self, ctor, notChunk>>

\* The chunking loop runs one iteration.
SplitStep ==
    /\ frame.pc = "loop"
    /\ frame' = Iter(frame)
    /\ UNCHANGED <<self, ctor, caller, splitter_calls, notChunk>>

\* structure_text handing the two integers over in the wrong order.
StructureText_SwappedArgs(t) ==
    /\ frame.pc = "idle"
    /\ caller' = "structure_text"
    /\ IF ~Truthy(t)
       THEN /\ frame' = Returned(Activation("structure_text", t, 0, 0), <<>>)
            /\ splitter_calls' = 0
       ELSE /\ frame' = CallSplitter(self.splitter_fn, t, self.chunk_overlap, self.chunk_size)
            /\ splitter_calls' = 1
    /\ UNCHANGED <<self, ctor, notChunk>>

\* Lines 86-88: TextStructurizer.structure_text(text).
StructureText(t) ==
    /\ frame.pc = "idle"
    /\ caller' = "structure_text"
    /\ IF ~Truthy(t)
       THEN /\ frame' = Returned(Activation("structure_text", t, 0, 0), <<>>)
            /\ splitter_calls' = 0
       ELSE /\ frame' = CallSplitter(self.splitter_fn, t, self.chunk_size, self.chunk_overlap)
            /\ splitter_calls' = 1
    /\ UNCHANGED <<self, ctor, notChunk>>

\* The caller takes the result (or the exception); the activation is gone.
CallEnds ==
    /\ frame.pc = "done"
    /\ frame' = IdleFrame
    /\ caller' = "none"
    /\ splitter_calls' = 0
    /\ UNCHANGED <<self, ctor, notChunk>>

NextChunk ==
    \/ \E t \in TextArgs, cs \in SizeArgs, co \in SizeArgs : SplitCall(t, cs, co)
    \/ SplitStep
    \/ \E t \in TextArgs : StructureText(t)
    \/ CallEnds

SpecChunk == InitChunk /\ [][NextChunk]_vars

\* The interpreter goes on running a loop it has entered.
SpecChunkFair == SpecChunk /\ WF_vars(SplitStep)

\* ------------------------------------------------------------ TextCleaner
CleanAlphabet == {"A", "b", "1", " ", "\t", "#", "!"}

LowerOf ==
    [c \in {"A", "B", "D", "E", "F", "G", "I", "J", "M", "N", "O", "P", "T", "X"} |->
        CASE c = "A" -> "a" [] c = "B" -> "b" [] c = "D" -> "d" [] c = "E" -> "e"
          [] c = "F" -> "f" [] c = "G" -> "g" [] c = "I" -> "i" [] c = "J" -> "j"
          [] c = "M" -> "m" [] c = "N" -> "n" [] c = "O" -> "o" [] c = "P" -> "p"
          [] c = "T" -> "t" [] c = "X" -> "x"]

\* str.lower(), character by character.
LowerChar(c) == IF c \in DOMAIN LowerOf THEN LowerOf[c] ELSE c
Lower(cs) == [i \in 1..Len(cs) |-> LowerChar(cs[i])]

\* re.sub(r'\s+', ' ', text): every maximal run of whitespace becomes one space.
RECURSIVE CollapseSpace(_)
CollapseSpace(cs) ==
    IF cs = <<>> THEN <<>>
    ELSE IF IsSpace(cs[1])
         THEN IF Len(cs) >= 2 /\ IsSpace(cs[2])
              THEN CollapseSpace(Tail(cs))
              ELSE <<" ">> \o CollapseSpace(Tail(cs))
         ELSE <<cs[1]>> \o CollapseSpace(Tail(cs))

\* Lines 28-31: normalize_whitespace.
normalize_whitespace(cs) == Strip(CollapseSpace(cs))

\* The character class [a-z0-9\s.,?!'] of line 24.
Allowed(c) ==
    \/ c \in {"a", "b", "c", "d", "e", "f", "g", "h", "i", "j", "k", "l", "m",
              "n", "o", "p", "q", "r", "s", "t", "u", "v", "w", "x", "y", "z"}
    \/ c \in {"0", "1", "2", "3", "4", "5", "6", "7", "8", "9"}
    \/ IsSpace(c)
    \/ c \in {".", ",", "?", "!", "'"}

\* re.sub(r"[^a-z0-9\s.,?!']", '', text): the other characters are deleted.
RECURSIVE RemoveSpecial(_)
RemoveSpecial(cs) ==
    IF cs = <<>> THEN <<>>
    ELSE (IF Allowed(cs[1]) THEN <<cs[1]>> ELSE <<>>) \o RemoveSpecial(Tail(cs))

\* Lines 15-26: clean_text.
clean_text(obj, cs) ==
    LET lowered == Lower(cs)
        spaced == normalize_whitespace(lowered)
    IN  IF obj.remove_special_chars THEN RemoveSpecial(spaced) ELSE spaced

\* Lines 6-13: TextCleaner(remove_special_chars), either way; the other
\* objects as their constructors' defaults build them.
InitClean ==
    /\ cleaner \in {[remove_special_chars |-> b] : b \in BOOLEAN}
    /\ clean = CleanIdle
    /\ frame = IdleFrame
    /\ ctor = [chunk_size |-> DefaultChunkSize, chunk_overlap |-> DefaultChunkOverlap,
               splitter_fn |-> "None"]
    /\ self = Construct(ctor.chunk_size, ctor.chunk_overlap, ctor.splitter_fn)
    /\ caller = "none"
    /\ splitter_calls = 0
    /\ PYMUPDF_AVAILABLE = TRUE
    /\ load = LoadIdle
    /\ llm = NoLLM
    /\ gen = GenIdle

CleanCall(cs) ==
    /\ clean.pc = "idle"
    /\ clean' = [pc |-> "done", text |-> cs, result |-> clean_text(cleaner, cs)]
    /\ UNCHANGED <<cleaner, notClean>>

CleanEnds ==
    /\ clean.pc = "done"
    /\ clean' = CleanIdle
    /\ UNCHANGED <<cleaner, notClean>>

NextClean ==
    \/ \E cs \in StrsUpTo(CleanAlphabet, MaxCleanLen) : CleanCall(cs)
    \/ CleanEnds

SpecClean == InitClean /\ [][NextClean]_vars

\* --------------------------------------------------------- DocumentLoader
Stems == {<<"a">>, <<>>, <<"d", ".", "x", "/", "a">>}

Suffixes ==
    {<<>>, <<".">>, <<".", "t", "x", "t">>, <<".", "T", "X", "T">>, <<".", "m", "d">>,
     <<".", "p", "d", "f">>, <<".", "P", "D", "F">>, <<".", "j", "p", "g">>,
     <<".", "j", "p", "e", "g">>, <<".", "p", "n", "g">>, <<".", "P", "n", "G">>,
     <<".", "b", "m", "p">>, <<".", "t", "i", "f", "f">>, <<".", "d", "o", "c">>}

Paths == {st \o su : st \in Stems, su \in Suffixes} \ {<<>>}

Contents == {<<>>, <<" ">>, <<"a">>, <<" ", "a">>}

Envs ==
    {[exists |-> e, read_ok |-> r, pdf_ok |-> p, content |-> c] :
        e \in BOOLEAN, r \in BOOLEAN, p \in BOOLEAN, c \in Contents}

\* str.rfind(c) as a 1-based index, 0 when c does not occur.
RECURSIVE RFindFrom(_, _, _)
RFindFrom(cs, c, i) ==
    IF i = 0 THEN 0 ELSE IF cs[i] = c THEN i ELSE RFindFrom(cs, c, i - 1)

RFind(cs, c) == RFindFrom(cs, c, Len(cs))

\* The extension os.path.splitext(p) gives: from the last dot of the last
\* path component on, unless that component has only dots before it.
SplitExt(ps) ==
    LET sep == RFind(ps, "/")
        dot == RFind(ps, ".")
    IN  IF dot > sep /\ \E k \in (sep + 1)..(dot - 1) : ps[k] # "."
        THEN SubSeq(ps, dot, Len(ps))
        ELSE <<>>

ImageExtensions ==
    {<<".", "j", "p", "g">>, <<".", "j", "p", "e", "g">>, <<".", "p", "n", "g">>,
     <<".", "b", "m", "p">>, <<".", "t", "i", "f", "f">>}

StrValue(tag, cs) == [type |-> "str", tag |-> tag, chars |-> cs]

LoadReturn(v, n) == [outcome |-> "return", result |-> v, opened |-> n]
LoadRaise(e, n) == [outcome |-> e, result |-> NoValue, opened |-> n]

\* Lines 60-67: _load_txt and _load_markdown; open() or read() may raise.
load_txt(env) ==
    IF env.read_ok THEN LoadReturn(StrValue("text", env.content), 1)
    ELSE LoadRaise("OSError", 1)

\* Lines 69-90: _load_pdf.
load_pdf(env, available) ==
    IF available
    THEN IF env.pdf_ok
         THEN IF Strip(env.content) # <<>>
              THEN LoadReturn(StrValue("text", env.content), 1)
              ELSE LoadReturn(StrValue("pdf_no_text", <<>>), 1)
         ELSE LoadReturn(StrValue("pdf_error", <<>>), 1)
    ELSE LoadReturn(StrValue("pdf_unavailable", <<>>), 0)

\* load_document dispatching before it looks whether the path exists.
load_document_ExistsAfterDispatch(ps, env, available) ==
    LET file_extension == SplitExt(Lower(ps))
    IN  IF file_extension \in ImageExtensions
        THEN LoadReturn(StrValue("image_unsupported", <<>>), 0)
        ELSE IF ~env.exists THEN LoadRaise("FileNotFoundError", 0)
        ELSE IF file_extension = <<".", "t", "x", "t">> THEN load_txt(env)
        ELSE IF file_extension = <<".", "m", "d">> THEN load_txt(env)
        ELSE IF file_extension = <<".", "p", "d", "f">> THEN load_pdf(env, available)
        ELSE LET r == load_txt(env)
             IN  IF r.outcome = "return" THEN r
                 ELSE LoadReturn(StrValue("unknown_type_error", <<>>), r.opened)

\* load_document comparing the extension as written, not lower-cased.
load_document_CaseSensitive(ps, env, available) ==
    IF ~env.exists THEN LoadRaise("FileNotFoundError", 0)
    ELSE LET file_extension == SplitExt(ps)
         IN  IF file_extension = <<".", "t", "x", "t">> THEN load_txt(env)
             ELSE IF file_extension = <<".", "m", "d">> THEN load_txt(env)
             ELSE IF file_extension = <<".", "p", "d", "f">> THEN load_pdf(env, available)
             ELSE IF file_extension \in ImageExtensions
                  THEN LoadReturn(StrValue("image_unsupported", <<>>), 0)
             ELSE LET r == load_txt(env)
                  IN  IF r.outcome = "return" THEN r
                      ELSE LoadReturn(StrValue("unknown_type_error", <<>>), r.opened)

\* Lines 35-58: load_document.
load_document(ps, env, available) ==
    IF ~env.exists THEN LoadRaise("FileNotFoundError", 0)
    ELSE LET file_extension == SplitExt(Lower(ps))
         IN  IF file_extension = <<".", "t", "x", "t">> THEN load_txt(env)
             ELSE IF file_extension = <<".", "m", "d">> THEN load_txt(env)
             ELSE IF file_extension = <<".", "p", "d", "f">> THEN load_pdf(env, available)
             ELSE IF file_extension \in ImageExtensions
                  THEN LoadReturn(StrValue("image_unsupported", <<>>), 0)
             ELSE LET r == load_txt(env)
                  IN  IF r.outcome = "return" THEN r
                      ELSE LoadReturn(StrValue("unknown_type_error", <<>>), r.opened)

\* loader.py imported with or without PyMuPDF, no call running; the other
\* objects as their constructors' defaults build them.
InitLoad ==
    /\ PYMUPDF_AVAILABLE \in BOOLEAN
    /\ load = LoadIdle
    /\ frame = IdleFrame
    /\ ctor = [chunk_size |-> DefaultChunkSize, chunk_overlap |-> DefaultChunkOverlap,
               splitter_fn |-> "None"]
    /\ self = Construct(ctor.chunk_size, ctor.chunk_overlap, ctor.splitter_fn)
    /\ caller = "none"
    /\ splitter_calls = 0
    /\ cleaner = [remove_special_chars |-> TRUE]
    /\ clean = CleanIdle
    /\ llm = NoLLM
    /\ gen = GenIdle

LoadCall(ps, env) ==
    /\ load.pc = "idle"
    /\ LET r == load_document(ps, env, PYMUPDF_AVAILABLE)
       IN  load' = [pc |-> "done", path |-> ps, env |-> env, outcome |-> r.outcome,
                    result |-> r.result, opened |-> r.opened]
    /\ UNCHANGED <<PYMUPDF_AVAILABLE, notLoad>>

LoadEnds ==
    /\ load.pc = "done"
    /\ load' = LoadIdle
    /\ UNCHANGED <<PYMUPDF_AVAILABLE, notLoad>>

NextLoad ==
    \/ \E ps \in Paths, env \in Envs : LoadCall(ps, env)
    \/ LoadEnds

SpecLoad == InitLoad /\ [][NextLoad]_vars

\* ---------------------------------------------------------- LLMIntegrator
UrlArgs == {PyNone, PyStr(<<>>), PyStr(<<"h">>), PyStr(<<"h", "/">>)}
KeyArgs == {PyNone, PyStr(<<"k">>)}
EnvUrls == {PyNone, PyStr(<<"e", "/", "/">>)}
EnvKeys == {PyNone, PyStr(<<"j">>)}

\* Python's `a or b`.
Or(a, b) == IF Truthy(a) THEN a ELSE b

\* Lines 9-41: __init__; without a base URL it raises ValueError and builds
\* no object.
LLMIntegrator(api_base_url, api_key, env_url, env_key) ==
    LET url == Or(api_base_url, env_url)
        key == Or(api_key, env_key)
    IN  IF ~Truthy(url) THEN NoLLM
        ELSE [built |-> TRUE, api_base_url |-> url, api_key |-> key,
              Authorization |->
                  IF Truthy(key)
                  THEN PyStr(<<"B", "e", "a", "r", "e", "r", " ">> \o key.chars)
                  ELSE PyNone]

Leaves ==
    {JAbsent, JNull, JNum, JStr(<<>>), JStr(<<" ">>), JStr(<<"h">>), JStr(<<" ", "h", " ">>)}

Bodies ==
    {NoBody}
    \cup {[NoBody EXCEPT !.json = TRUE, !.root = r] : r \in {"list", "str", "num", "null"}}
    \cup {[NoBody EXCEPT !.json = TRUE, !.root = "dict", !.choices = c] :
            c \in {"absent", "null", "empty_list", "dict", "str", "num"}}
    \cup {[NoBody EXCEPT !.json = TRUE, !.root = "dict", !.choices = "list", !.first = f] :
            f \in {"str", "num", "null", "list"}}
    \cup {[NoBody EXCEPT !.json = TRUE, !.root = "dict", !.choices = "list",
                         !.first = "dict", !.message = m, !.text = x] :
            m \in {"absent", "null", "empty_dict", "str", "num"}, x \in Leaves}
    \cup {[NoBody EXCEPT !.json = TRUE, !.root = "dict", !.choices = "list",
                         !.first = "dict", !.message = "dict", !.content = c, !.text = x] :
            c \in Leaves, x \in Leaves}

Https ==
    {[transport |-> tr, status |-> st, json_error |-> je, body |-> b] :
        tr \in {"ok", "ConnectionError", "Timeout"}, st \in {200, 404, 500},
        je \in {"JSONDecodeError", "ValueError"}, b \in Bodies}

\* Truth value of a JSON leaf: absent (.get gives None), null and "" are falsy.
JTruthy(v) == v.t = "num" \/ (v.t = "str" /\ v.chars # <<>>)

\* str.rstrip('/').
RECURSIVE RStrip(_, _)
RStrip(cs, c) ==
    IF cs # <<>> /\ cs[Len(cs)] = c THEN RStrip(SubSeq(cs, 1, Len(cs) - 1), c) ELSE cs

ChatCompletions == <<"/", "v", "1", "/", "c", "h", "a", "t", "/", "c", "o", "m", "p", "l", "e", "t", "i", "o", "n", "s">>

GenReturn(v) == [outcome |-> "return", result |-> v]
GenRaise(e) == [outcome |-> e, result |-> NoValue]

\* Lines 109-110, the fallback: choices[0].get("text") and its strip().
ExtractText(b) ==
    IF JTruthy(b.text)
    THEN IF b.text.t = "str" THEN GenReturn(StrValue("answer", Strip(b.text.chars)))
         ELSE GenRaise("AttributeError")
    ELSE GenReturn(StrValue("could_not_extract", <<>>))

\* Lines 104-114: the answer taken out of response_data.
Extract(b) ==
    IF b.root # "dict" THEN GenRaise("AttributeError")
    ELSE IF b.choices \in {"absent", "null", "empty_list"}
         THEN GenReturn(StrValue("could_not_extract", <<>>))
    ELSE IF b.choices = "num" THEN GenRaise("TypeError")
    ELSE IF b.choices = "dict" THEN GenRaise("KeyError")
    ELSE IF b.choices = "str" THEN GenRaise("AttributeError")
    ELSE IF b.first # "dict" THEN GenRaise("AttributeError")
    ELSE IF b.message \in {"absent", "null", "empty_dict"} THEN ExtractText(b)
    ELSE IF b.message # "dict" THEN GenRaise("AttributeError")
    ELSE IF JTruthy(b.content)
         THEN IF b.content.t = "str"
              THEN GenReturn(StrValue("answer", Strip(b.content.chars)))
              ELSE GenRaise("AttributeError")
    ELSE ExtractText(b)

\* Lines 95-114: the try block: post, raise_for_status, json, extraction.
TryBlock(http) ==
    IF http.transport # "ok" THEN GenRaise(http.transport)
    ELSE IF http.status >= 400 THEN GenRaise("HTTPError")
    ELSE IF ~http.body.json THEN GenRaise(http.json_error)
    ELSE Extract(http.body)

\* The subclasses of requests.exceptions.RequestException that can arrive.
RequestExceptions == {"ConnectionError", "Timeout", "HTTPError", "JSONDecodeError"}

\* The request lines 89 and 96 send.
RequestOf(obj) ==
    [url |-> RStrip(obj.api_base_url.chars, "/") \o ChatCompletions,
     Authorization |-> obj.Authorization]

\* generate_answer without the catch-all handler of lines 124-126.
generate_answer_NoCatchAll(obj, http) ==
    IF ~Truthy(obj.api_base_url)
    THEN [outcome |-> "return", result |-> [NoValue EXCEPT !.type = "NoneType"],
          posts |-> 0, request |-> NoRequest]
    ELSE LET r == TryBlock(http)
             v == IF r.outcome = "return" THEN r
                  ELSE IF r.outcome \in RequestExceptions
                       THEN GenReturn(StrValue("error_reaching_model", <<>>))
                  ELSE r
         IN  [outcome |-> v.outcome, result |-> v.result, posts |-> 1,
              request |-> RequestOf(obj)]

\* generate_answer posting a second time after a transport or HTTP failure.
generate_answer_RetryOnce(obj, http) ==
    IF ~Truthy(obj.api_base_url)
    THEN [outcome |-> "return", result |-> [NoValue EXCEPT !.type = "NoneType"],
          posts |-> 0, request |-> NoRequest]
    ELSE LET r == TryBlock(http)
             v == IF r.outcome = "return" THEN r
                  ELSE IF r.outcome \in RequestExceptions
                       THEN GenReturn(StrValue("error_reaching_model", <<>>))
                  ELSE GenReturn(StrValue("unexpected_error", <<>>))
         IN  [outcome |-> v.outcome, result |-> v.result,
              posts |-> IF r.outcome \in RequestExceptions THEN 2 ELSE 1,
              request |-> RequestOf(obj)]

\* Lines 43-126: generate_answer.
generate_answer(obj, http) ==
    IF ~Truthy(obj.api_base_url)
    THEN [outcome |-> "return", result |-> [NoValue EXCEPT !.type = "NoneType"],
          posts |-> 0, request |-> NoRequest]
    ELSE LET r == TryBlock(http)
             v == IF r.outcome = "return" THEN r
                  ELSE IF r.outcome \in RequestExceptions
                       THEN GenReturn(StrValue("error_reaching_model", <<>>))
                  ELSE GenReturn(StrValue("unexpected_error", <<>>))
         IN  [outcome |-> v.outcome, result |-> v.result, posts |-> 1,
              request |-> RequestOf(obj)]

\* The constructor has run on any of the arguments and environments, no call
\* running; the other objects as their constructors' defaults build them.
InitLLM ==
    /\ \E u \in UrlArgs, k \in KeyArgs, eu \in EnvUrls, ek \in EnvKeys :
           llm = LLMIntegrator(u, k, eu, ek)
    /\ gen = GenIdle
    /\ frame = IdleFrame
    /\ ctor = [chunk_size |-> DefaultChunkSize, chunk_overlap |-> DefaultChunkOverlap,
               splitter_fn |-> "None"]
    /\ self = Construct(ctor.chunk_size, ctor.chunk_overlap, ctor.splitter_fn)
    /\ caller = "none"
    /\ splitter_calls = 0
    /\ cleaner = [remove_special_chars |-> TRUE]
    /\ clean = CleanIdle
    /\ PYMUPDF_AVAILABLE = TRUE
    /\ load = LoadIdle

GenerateAnswer(http) ==
    /\ llm.built
    /\ gen.pc = "idle"
    /\ LET r == generate_answer(llm, http)
       IN  gen' = [pc |-> "done", http |-> http, outcome |-> r.outcome,
                   result |-> r.result, posts |-> r.posts, request |-> r.request]
    /\ UNCHANGED <<llm, notLLM>>

GenerateEnds ==
    /\ gen.pc = "done"
    /\ gen' = GenIdle
    /\ UNCHANGED <<llm, notLLM>>

NextLLM ==
    \/ \E http \in Https : GenerateAnswer(http)
    \/ GenerateEnds

SpecLLM == InitLLM /\ [][NextLLM]_vars

\* ================================================================ claims
ValidParams(f) ==
    f.chunk_size > 0 /\ f.chunk_overlap >= 0 /\ f.chunk_overlap < f.chunk_size

\* A call of split_text_by_fixed_size has ended.
SplitDone == frame.pc = "done" /\ frame.fn = "split_text_by_fixed_size"

\* ... on a non-empty string with valid parameters.
SplitDoneValid ==
    SplitDone /\ IsStr(frame.text) /\ Truthy(frame.text) /\ ValidParams(frame)

\* c[k:]
Drop(c, k) == SubSeq(c, k + 1, Len(c))

\* The first chunk followed by every later chunk without its first ov characters.
RECURSIVE Tails(_, _)
Tails(cs, ov) == IF cs = <<>> THEN <<>> ELSE Drop(Head(cs), ov) \o Tails(Tail(cs), ov)

Rebuild(cs, ov) == IF cs = <<>> THEN <<>> ELSE Head(cs) \o Tails(Tail(cs), ov)

\* C1: for a non-empty text and valid (chunk_size, chunk_overlap), the first
\* chunk followed by each later chunk without its first chunk_overlap
\* characters is exactly the original text.
C1_RoundTrip ==
    SplitDoneValid =>
        /\ frame.outcome = "return"
        /\ Rebuild(frame.result, frame.chunk_overlap) = frame.text.chars

C1_Witness ==
    /\ SplitDoneValid
    /\ Len(frame.result) >= 3
    /\ frame.chunk_overlap >= 1

\* C2: every returned chunk except the last has length exactly chunk_size,
\* the last has a length in 1..chunk_size, and no chunk is empty.
C2_ChunkLengths ==
    SplitDoneValid =>
        LET r == frame.result
        IN  /\ frame.outcome = "return"
            /\ Len(r) >= 1
            /\ \A k \in 1..(Len(r) - 1) : Len(r[k]) = frame.chunk_size
            /\ Len(r[Len(r)]) >= 1
            /\ Len(r[Len(r)]) <= frame.chunk_size
            /\ \A k \in 1..Len(r) : r[k] # <<>>

C2_Witness ==
    /\ SplitDoneValid
    /\ Len(frame.result) >= 2
    /\ frame.chunk_overlap >= 2
    /\ Len(frame.result[Len(frame.result)]) = frame.chunk_size

\* C3: a call with chunk_size <= 0, chunk_overlap < 0 or chunk_overlap >=
\* chunk_size ends in ValueError for every text string, the empty one included,
\* and never returns a sequence.
C3_InvalidAlwaysFails ==
    (SplitDone /\ IsStr(frame.text) /\ ~ValidParams(frame)) =>
        frame.outcome = "ValueError"

\* C4: with valid parameters, an empty text or a text that is not a string
\* makes split_text_by_fixed_size return [] without an error, and
\* structure_text returns [] without an error on the empty text.
C4_EmptyOrNonString ==
    /\ (SplitDone /\ ValidParams(frame) /\ (~IsStr(frame.text) \/ frame.text.chars = <<>>)) =>
           (frame.outcome = "return" /\ frame.result = <<>>)
    /\ (frame.pc = "done" /\ caller = "structure_text" /\ frame.text = PyStr(<<>>)) =>
           (frame.outcome = "return" /\ frame.result = <<>>)

C4_Witness ==
    /\ SplitDone
    /\ ValidParams(frame)
    /\ ~IsStr(frame.text)
    /\ Truthy(frame.text)

\* C5: chunk k (from 0) is the substring starting at offset
\* k * (chunk_size - chunk_overlap); the last chunk_overlap characters of a
\* chunk are the first chunk_overlap characters of the next one, and the next
\* one is strictly longer than chunk_overlap.
C5_ExactOverlap ==
    SplitDoneValid =>
        LET r == frame.result
            size == frame.chunk_size
            ov == frame.chunk_overlap
            stride == size - ov
        IN  /\ frame.outcome = "return"
            /\ \A k \in 1..Len(r) :
                   r[k] = Slice(frame.text.chars, (k - 1) * stride, (k - 1) * stride + size)
            /\ \A k \in 1..(Len(r) - 1) :
                   /\ Len(r[k + 1]) > ov
                   /\ Drop(r[k], Len(r[k]) - ov) = SubSeq(r[k + 1], 1, ov)

C5_Witness ==
    /\ SplitDoneValid
    /\ Len(frame.result) >= 2
    /\ frame.chunk_overlap >= 1
    /\ Len(frame.result[Len(frame.result)]) = frame.chunk_overlap + 1
    /\ Len(frame.result[Len(frame.result)]) < frame.chunk_size

\* C10: structure_text returns what splitter_fn(text, chunk_size,
\* chunk_overlap) gives for the values configured at construction, with one
\* splitter call for a non-empty text and none (and []) for an empty one, and
\* the object's three fields stay as constructed.
C10_PureDelegation ==
    /\ self = Construct(ctor.chunk_size, ctor.chunk_overlap, ctor.splitter_fn)
    /\ (frame.pc = "done" /\ caller = "structure_text") =>
           IF ~Truthy(frame.text)
           THEN /\ splitter_calls = 0
                /\ frame.outcome = "return"
                /\ frame.result = <<>>
           ELSE LET fn == IF ctor.splitter_fn = "None"
                          THEN "split_text_by_fixed_size" ELSE ctor.splitter_fn
                    want == Run(CallSplitter(fn, frame.text, ctor.chunk_size,
                                             ctor.chunk_overlap))
                IN  /\ splitter_calls = 1
                    /\ frame.fn = fn
                    /\ frame.outcome = want.outcome
                    /\ frame.result = want.result

C10_Witness ==
    /\ frame.pc = "done"
    /\ caller = "structure_text"
    /\ ctor.splitter_fn = "None"
    /\ frame.outcome = "return"
    /\ Len(frame.result) >= 2
    /\ frame.chunk_overlap = 1

\* Whether the text has two whitespace characters in a row.
DoubleSpace(cs) == \E i \in 1..(Len(cs) - 1) : IsSpace(cs[i]) /\ IsSpace(cs[i + 1])

\* C6: with special-character removal enabled, the result of clean_text is
\* lower-case, holds only characters of the allow-list (a-z, 0-9, space,
\* . , ? ! '), has no run of two or more whitespace characters and no leading
\* or trailing whitespace.
C6_CleanShape ==
    (clean.pc = "done" /\ cleaner.remove_special_chars) =>
        LET r == clean.result
        IN  /\ r = Lower(r)
            /\ \A i \in 1..Len(r) : Allowed(r[i]) /\ (IsSpace(r[i]) => r[i] = " ")
            /\ ~DoubleSpace(r)
            /\ r = Strip(r)

\* The extension the loader dispatches on.
ExtOf(ps) == SplitExt(Lower(ps))

TextExtensions == {<<".", "t", "x", "t">>, <<".", "m", "d">>}

\* C8: load_document on a path that does not exist raises FileNotFoundError
\* whatever the extension, and returns neither a sentinel nor file text.
C8_MissingFileRaises ==
    (load.pc = "done" /\ ~load.env.exists) =>
        /\ load.outcome = "FileNotFoundError"
        /\ load.result = NoValue
        /\ load.opened = 0

C8_Witness ==
    /\ load.pc = "done"
    /\ ~load.env.exists
    /\ ExtOf(load.path) \in ImageExtensions
    /\ load.path # Lower(load.path)

CeilDiv(a, b) == (a + b - 1) \div b

\* Where chunk k (from 1) of the result ends in the text: its start offset
\* (k - 1) * (chunk_size - chunk_overlap) plus its length.
ChunkEnd(f, k) == (k - 1) * (f.chunk_size - f.chunk_overlap) + Len(f.result[k])

\* C11: the loop stops at the first chunk whose end reaches the end of the
\* text: the last returned chunk, and no other, ends at the text end; a text
\* of length L <= chunk_size gives the one chunk that is the whole text, a
\* longer one gives 1 + ceil((L - chunk_size) / (chunk_size - chunk_overlap)).
C11_StopAtEndAndCount ==
    SplitDoneValid =>
        LET r == frame.result
            L == Len(frame.text.chars)
            size == frame.chunk_size
            stride == frame.chunk_size - frame.chunk_overlap
        IN  /\ frame.outcome = "return"
            /\ Len(r) >= 1
            /\ \A k \in 1..Len(r) : (ChunkEnd(frame, k) = L) <=> (k = Len(r))
            /\ IF L <= size
               THEN r = <<frame.text.chars>>
               ELSE Len(r) = 1 + CeilDiv(L - size, stride)

C11_Witness ==
    /\ SplitDoneValid
    /\ Len(frame.text.chars) > frame.chunk_size
    /\ frame.chunk_overlap >= 1
    /\ Len(frame.result) = 3
    /\ Len(frame.result[3]) = frame.chunk_size

\* The chunking loop is running.
InLoop == frame.pc = "loop" /\ frame.fn = "split_text_by_fixed_size"

\* C12: in the loop the stride chunk_size - chunk_overlap is at least 1, the
\* cursor start_index stays inside the text and strictly increases at every
\* iteration that does not stop, the call returns after at most len(text)
\* iterations, and a loop that was entered is eventually left.
C12_Termination ==
    /\ [](InLoop =>
            /\ frame.chunk_size - frame.chunk_overlap >= 1
            /\ frame.start_index < Len(frame.text.chars)
            /\ frame.iters < Len(frame.text.chars))
    /\ [](SplitDoneValid =>
            /\ frame.outcome = "return"
            /\ frame.iters >= 1
            /\ frame.iters <= Len(frame.text.chars))
    /\ [][(InLoop /\ frame'.pc = "loop") =>
            /\ frame'.start_index > frame.start_index
            /\ frame'.iters = frame.iters + 1]_vars
    /\ (InLoop ~> (frame.pc = "done"))

C12_Witness ==
    /\ SplitDoneValid
    /\ frame.iters >= 3
    /\ frame.iters = Len(frame.text.chars)

\* Whether cs ends with the characters of suffix.
EndsWith(cs, suffix) ==
    /\ Len(cs) >= Len(suffix)
    /\ SubSeq(cs, Len(cs) - Len(suffix) + 1, Len(cs)) = suffix

\* cs without its last n characters.
DropLast(cs, n) == SubSeq(cs, 1, Len(cs) - n)

Bearer == <<"B", "e", "a", "r", "e", "r", " ">>

\* C13: every generate_answer issues exactly one POST, also after a transport
\* failure, a non-2xx status or an unextractable response; its URL is the
\* base URL without trailing slashes followed by /v1/chat/completions; and the
\* Authorization: Bearer header is sent if and only if an API key was
\* configured at construction.
C13_OnePostNoRetry ==
    gen.pc = "done" =>
        LET url == gen.request.url
            base == DropLast(url, Len(ChatCompletions))
            slashes == SubSeq(llm.api_base_url.chars, Len(base) + 1,
                              Len(llm.api_base_url.chars))
        IN  /\ gen.posts = 1
            /\ EndsWith(url, ChatCompletions)
            /\ ~EndsWith(base, <<"/">>)
            /\ SubSeq(llm.api_base_url.chars, 1, Len(base)) = base
            /\ \A i \in 1..Len(slashes) : slashes[i] = "/"
            /\ (gen.request.Authorization # PyNone) <=> Truthy(llm.api_key)
            /\ Truthy(llm.api_key) =>
                   gen.request.Authorization = PyStr(Bearer \o llm.api_key.chars)

C13_Witness ==
    /\ gen.pc = "done"
    /\ gen.http.transport = "Timeout"
    /\ EndsWith(llm.api_base_url.chars, <<"/", "/">>)
    /\ llm.api_key = PyNone
====
